---- MODULE Spec2Model ----
(***************************************************************************)
(* A model of the notebook 2_deep_learning_for_features.ipynb: the data    *)
(* preparation (make_dataset, the two train_test_split calls), the batch   *)
(* iterators (DatasetFolder, dataloaders), the network (Net), the training *)
(* loop (train_model) and the evaluation pass (print_test_accuracy).       *)
(*                                                                         *)
(* Numbers the notebook keeps as floats are kept here as integers:         *)
(*   - a standardized feature is a fixed-point number with Scale units per *)
(*     1.0, truncated toward zero;                                         *)
(*   - test_size and accuracies are fractions <<numerator, denominator>>;  *)
(*   - the cross-entropy of a sample is replaced by its hard-max form      *)
(*     max(logits) - logits[class], which is 0 exactly where the true      *)
(*     cross-entropy is smallest and grows with the same margin.           *)
(* What the optimizer does to the weights is left open: a step may leave   *)
(* any parameter set of WeightPool.                                        *)
(***************************************************************************)
EXTENDS Integers, Sequences, FiniteSets, TLC

\* ------------------------------------------------------------------ bounds
\* The longest CSV file read by make_dataset.
MaxRows == 5
\* The number of CSV contents per length, beside the one with no missing value.
NumVariants == 2
\* Fixed-point units per 1.0 of a standardized feature.
Scale == 4
\* The loaded sets train_model is run on have up to MaxSamples samples.
MaxSamples == 6
\* The batch sizes are 1..MaxBatch, the epoch counts 0..MaxEpochs.
MaxBatch == 2
MaxEpochs == 2

\* ------------------------------------------------------ program constants
\* The width of a label vector: y = [0, 0, 0, 0].
NumClasses == 4
\* The number of selected columns, and the input width of Net.
NumFeatures == 9

\* A cell of the file is <<v>>, or <<>> where the file has no value (pandas' NaN).
NaN == <<>>

Cell(v) == <<v>>

Value(cell) == cell[1]

\* The selected feature columns, in the order of the list `columns`.
columns == <<"C101", "C103", "C104", "C115", "A101", "A120", "A121", "A122", "A123">>

\* A column of the file that make_dataset does not select.
OtherColumn == "C102"

AllColumns == {"Cgroup", OtherColumn} \cup {columns[j] : j \in DOMAIN columns}

VARIABLES
    pc,            \* the position of the notebook's execution
    csv,           \* the content of yeast_his3.csv: a sequence of rows
    cell_features, \* make_dataset: the rows kept, each with its file position
    groups,        \* make_dataset: the Cgroup column of the rows kept
    X_norm,        \* make_dataset: the standardized features of the rows kept
    features,      \* make_dataset: the list being built
    labels,        \* make_dataset: the list being built
    i,             \* make_dataset: the number of loop iterations done
    X, y,          \* the loaded set
    X_tmp, y_tmp, X_test, y_test,       \* after the first split
    X_train, y_train, X_val, y_val,     \* after the second split
    pos_tmp, pos_test, pos_train, pos_val,  \* history: positions in X of each subset
    batch_size,    \* the batch size given to the three DataLoaders
    num_epochs,    \* train_model's argument
    weights,       \* the parameters of `model` (its state_dict)
    training,      \* the mode set by model.train(...)
    best_model_wts, best_acc,           \* train_model: the checkpoint
    epoch, phase,                       \* train_model: the loop variables
    running_loss, running_corrects,     \* the accumulators of the running pass
    order, pos,    \* the running DataLoader iterator: its index order, and how far it is
    epoch_loss, epoch_acc,              \* the values last printed
    sched_steps,   \* the number of scheduler.step() calls
    opt_steps,     \* the number of optimizer.step() calls
    loads,         \* the number of model.load_state_dict() calls
    init_wts,      \* history: the parameters before train_model
    seen,          \* history: the samples of the running pass, as processed
    batch_lens,    \* history: the sizes of the batches of the running pass
    events,        \* history: the steps of the running epoch, in order
    val_hist,      \* history: per finished epoch, its validation accuracy and parameters
    prev_order,    \* history: the index order of the last training pass, until the next
    reshuffled     \* history: the running training pass has another order than the last

dataVars == <<csv, cell_features, groups, X_norm, features, labels, i, X, y,
              X_tmp, y_tmp, X_test, y_test, pos_tmp, pos_test, pos_train, pos_val>>

splitVars == <<X_train, y_train, X_val, y_val>>

trainVars == <<batch_size, num_epochs, weights, training, best_model_wts, best_acc, epoch,
               phase, running_loss, running_corrects, order, pos, epoch_loss, epoch_acc,
               sched_steps, opt_steps, loads, init_wts, seen, batch_lens, events, val_hist,
               prev_order, reshuffled>>

vars == <<pc, dataVars, splitVars, trainVars>>

\* ------------------------------------------------------------- arithmetic
Abs(a) == IF a < 0 THEN -a ELSE a

RECURSIVE SumSeq(_)
SumSeq(s) == IF s = <<>> THEN 0 ELSE Head(s) + SumSeq(Tail(s))

\* The integer square root.
ISqrt(v) == CHOOSE r \in 0..v : r * r <= v /\ (r + 1) * (r + 1) > v

\* ceil(f * n) for the fraction f = <<p, q>>.
CeilFrac(f, n) == (f[1] * n + f[2] - 1) \div f[2]

\* The subsequence s[idx[1]], s[idx[2]], ...
Pick(s, idx) == [k \in 1..Len(idx) |-> s[idx[k]]]

\* ------------------------------------------------------------ the CSV file
GroupCycle == <<Cell("no"), Cell("small"), Cell("medium"), Cell("large"), Cell("huge"), NaN,
                Cell("Small"), Cell("none")>>

\* Row k of the CSV content number v. Content 0 has no missing value; the others
\* miss a label, a selected feature or the unselected column in some rows.
CsvRow(v, k) ==
    [c \in AllColumns |->
        IF c = "Cgroup"
        THEN (IF v = 0 THEN GroupCycle[((k - 1) % 5) + 1]
                       ELSE GroupCycle[((k + v) % 8) + 1])
        ELSE IF c = OtherColumn
        THEN (IF v > 0 /\ k % 2 = 1 THEN NaN ELSE Cell(k))
        ELSE LET j == CHOOSE j \in DOMAIN columns : columns[j] = c
             IN  IF v > 0 /\ (k + v) % 4 = 0 /\ j = ((k + v) % 9) + 1
                 THEN NaN
                 ELSE Cell((k * j + v) % 3)]

CsvFile(v, n) == [k \in 1..n |-> CsvRow(v, k)]

CsvPool == {CsvFile(v, n) : v \in 0..NumVariants, n \in 0..MaxRows}

\* ------------------------------------------------------------ make_dataset
isnull(v) == v = NaN

\* A bug NoNull could have: the missing values counted over every column of the file.
NoNullAnyColumn(row) == \A c \in DOMAIN row : ~isnull(row[c])

\* np.sum(cell_features_pre.isnull(), axis=1) == 0 for one row, over the columns
\* of cell_features_pre = dataset[["Cgroup"] + columns].
NoNull(row) ==
    /\ ~isnull(row["Cgroup"])
    /\ \A j \in DOMAIN columns : ~isnull(row[columns[j]])

\* The boolean-mask selection: the kept rows in file order, each with its index.
RECURSIVE Select(_, _)
Select(dataset, k) ==
    IF k > Len(dataset) THEN <<>>
    ELSE (IF NoNull(dataset[k]) THEN <<[index |-> k, row |-> dataset[k]]>> ELSE <<>>)
         \o Select(dataset, k + 1)

\* StandardScaler().fit_transform(X): per column, (x - mean) / std with the
\* population std, and a zero std replaced by 1. With n rows, S the column's sum
\* and SS the sum of the squares of n*x - S, that is (n*x - S) * sqrt(n / SS).
StandardScaler(cf) ==
    LET n == Len(cf)
        col(j) == [k \in 1..n |-> Value(cf[k].row[columns[j]])]
        S(j) == SumSeq(col(j))
        num(j, k) == n * Value(cf[k].row[columns[j]]) - S(j)
        SS(j) == SumSeq([k \in 1..n |-> num(j, k) * num(j, k)])
        fix(j, k) == IF SS(j) = 0 THEN 0
                     ELSE LET m == ISqrt((num(j, k) * num(j, k) * Scale * Scale * n) \div SS(j))
                          IN  IF num(j, k) < 0 THEN -m ELSE m
    IN  [k \in 1..n |-> [j \in DOMAIN columns |-> fix(j, k)]]

\* A bug OneHot could have: the vectors of "medium" and "large" exchanged.
OneHotSwapped(group) ==
    IF group = "no" THEN <<1, 0, 0, 0>>
    ELSE IF group = "small" THEN <<0, 1, 0, 0>>
    ELSE IF group = "medium" THEN <<0, 0, 0, 1>>
    ELSE IF group = "large" THEN <<0, 0, 1, 0>>
    ELSE <<0, 0, 0, 0>>

\* The if / elif chain over the label string.
OneHot(group) ==
    IF group = "no" THEN <<1, 0, 0, 0>>
    ELSE IF group = "small" THEN <<0, 1, 0, 0>>
    ELSE IF group = "medium" THEN <<0, 0, 1, 0>>
    ELSE IF group = "large" THEN <<0, 0, 0, 1>>
    ELSE <<0, 0, 0, 0>>

\* Lines 128-138: read, select, drop the rows with a missing value, standardize.
\* fit_transform raises on an array of no rows.
MakeDatasetLoad ==
    /\ pc = "make_dataset"
    /\ LET cf == Select(csv, 1)
       IN  /\ cell_features' = cf
           /\ groups' = [k \in 1..Len(cf) |-> Value(cf[k].row["Cgroup"])]
           /\ IF Len(cf) = 0
              THEN /\ pc' = "error"
                   /\ UNCHANGED X_norm
              ELSE /\ pc' = "md_loop"
                   /\ X_norm' = StandardScaler(cf)
    /\ features' = <<>>
    /\ labels' = <<>>
    /\ i' = 0
    /\ UNCHANGED <<csv, X, y, X_tmp, y_tmp, X_test, y_test,
                   pos_tmp, pos_test, pos_train, pos_val, splitVars, trainVars>>

\* One iteration of `for i in range(len(groups))`.
MakeDatasetIter ==
    /\ pc = "md_loop"
    /\ i < Len(groups)
    /\ LET group == groups[i + 1]
           feature == X_norm[i + 1]
       IN  /\ features' = Append(features, feature)
           /\ labels' = Append(labels, OneHot(group))
    /\ i' = i + 1
    /\ UNCHANGED <<pc, csv, cell_features, groups, X_norm, X, y, X_tmp, y_tmp, X_test,
                   y_test, pos_tmp, pos_test, pos_train, pos_val, splitVars, trainVars>>

\* `return features, labels` and the assignment X, y = make_dataset("data").
MakeDatasetReturn ==
    /\ pc = "md_loop"
    /\ i = Len(groups)
    /\ X' = features
    /\ y' = labels
    /\ pc' = "split1"
    /\ UNCHANGED <<csv, cell_features, groups, X_norm, features, labels, i, X_tmp, y_tmp,
                   X_test, y_test, pos_tmp, pos_test, pos_train, pos_val, splitVars, trainVars>>

\* -------------------------------------------------------- train_test_split
\* The sizes train_test_split gives n samples: n_test = ceil(test_size * n) and
\* n_train = n - n_test; it raises when n_train is 0.
NTest(test_size, n) == CeilFrac(test_size, n)

SplitFails(test_size, n) == n - NTest(test_size, n) <= 0

\* The index arrays of one shuffled split: the first n_test of a permutation are
\* the test indices, the rest the train indices.
SplitIndices(test_size, n) ==
    {[train |-> SubSeq(p, NTest(test_size, n) + 1, n),
      test  |-> SubSeq(p, 1, NTest(test_size, n))] : p \in Permutations(1..n)}

\* The arrays the first call splits.
FirstSplitInput == [Xs |-> X, ys |-> y]

\* X_tmp, X_test, y_tmp, y_test = train_test_split(X, y, test_size = 0.20)
Split1 ==
    /\ pc = "split1"
    /\ LET in == FirstSplitInput
           n == Len(in.Xs)
       IN  IF SplitFails(<<1, 5>>, n)
           THEN /\ pc' = "error"
                /\ UNCHANGED <<X_tmp, y_tmp, X_test, y_test, pos_tmp, pos_test>>
           ELSE \E s \in SplitIndices(<<1, 5>>, n) :
                /\ X_tmp' = Pick(in.Xs, s.train)
                /\ X_test' = Pick(in.Xs, s.test)
                /\ y_tmp' = Pick(in.ys, s.train)
                /\ y_test' = Pick(in.ys, s.test)
                /\ pos_tmp' = s.train
                /\ pos_test' = s.test
                /\ pc' = "split2"
    /\ UNCHANGED <<csv, cell_features, groups, X_norm, features, labels, i, X, y,
                   pos_train, pos_val, splitVars, trainVars>>

\* A bug SecondSplitInput could have: the second call splits X and y again.
SecondSplitWhole == [Xs |-> X, ys |-> y, pos |-> [k \in 1..Len(X) |-> k]]

\* The arrays the second call splits, with the position in X of each entry.
SecondSplitInput == [Xs |-> X_tmp, ys |-> y_tmp, pos |-> pos_tmp]

\* X_train, X_val, y_train, y_val = train_test_split(X_tmp, y_tmp, test_size = 0.25)
Split2 ==
    /\ pc = "split2"
    /\ LET in == SecondSplitInput
           n == Len(in.Xs)
       IN  IF SplitFails(<<1, 4>>, n)
           THEN /\ pc' = "error"
                /\ UNCHANGED <<X_train, y_train, X_val, y_val, pos_train, pos_val>>
           ELSE \E s \in SplitIndices(<<1, 4>>, n) :
                /\ X_train' = Pick(in.Xs, s.train)
                /\ X_val' = Pick(in.Xs, s.test)
                /\ y_train' = Pick(in.ys, s.train)
                /\ y_val' = Pick(in.ys, s.test)
                /\ pos_train' = Pick(in.pos, s.train)
                /\ pos_val' = Pick(in.pos, s.test)
                /\ pc' = "split_done"
    /\ UNCHANGED <<csv, cell_features, groups, X_norm, features, labels, i, X, y,
                   X_tmp, y_tmp, X_test, y_test, pos_tmp, pos_test, trainVars>>

\* The training variables while the data is prepared: nothing has run yet.
NotTraining ==
    /\ batch_size = 0 /\ num_epochs = 0 /\ weights = 0 /\ training = TRUE
    /\ best_model_wts = [live |-> FALSE, val |-> 0] /\ best_acc = <<0, 1>> /\ epoch = 0 /\ phase = ""
    /\ running_loss = 0 /\ running_corrects = 0 /\ order = <<>> /\ pos = 0
    /\ epoch_loss = <<0, 1>> /\ epoch_acc = <<0, 1>>
    /\ sched_steps = 0 /\ opt_steps = 0 /\ loads = 0 /\ init_wts = 0
    /\ seen = <<>> /\ batch_lens = <<>> /\ events = <<>> /\ val_hist = <<>>
    /\ prev_order = <<>> /\ reshuffled = FALSE

\* ------------------------------------------------ the data preparation run
InitData ==
    /\ pc = "make_dataset"
    /\ csv \in CsvPool
    /\ cell_features = <<>>
    /\ groups = <<>>
    /\ X_norm = <<>>
    /\ features = <<>>
    /\ labels = <<>>
    /\ i = 0
    /\ X = <<>> /\ y = <<>>
    /\ X_tmp = <<>> /\ y_tmp = <<>> /\ X_test = <<>> /\ y_test = <<>>
    /\ X_train = <<>> /\ y_train = <<>> /\ X_val = <<>> /\ y_val = <<>>
    /\ pos_tmp = <<>> /\ pos_test = <<>> /\ pos_train = <<>> /\ pos_val = <<>>
    /\ NotTraining

NextData ==
    \/ MakeDatasetLoad
    \/ MakeDatasetIter
    \/ MakeDatasetReturn
    \/ Split1
    \/ Split2

SpecData == InitData /\ [][NextData]_vars

\* ------------------------------------------------------ the loaded sets
\* The contents of the loaded sets train_model is run on, by number.
LoadedSets == {1, 2}

GroupNames == <<"no", "small", "medium", "large", "huge">>

\* Sample k of the loaded set number d: its standardized features (Scale at one
\* column, -Scale at the next, 0 elsewhere) and its label vector.
SampleFeature(d, k) ==
    [j \in 1..NumFeatures |->
        IF j = ((k * d) % 5) + 1 THEN Scale
        ELSE IF j = ((k * d) % 5) + 2 THEN -Scale
        ELSE 0]

SampleLabel(d, k) == OneHot(GroupNames[((k + d) % 5) + 1])

\* Every feature vector of the loaded sets.
FeaturePool == {SampleFeature(d, k) : d \in LoadedSets, k \in 1..MaxSamples}

\* ------------------------------------------------------------------- Net
\* The parameter sets a model may hold: WeightPool names them, Params gives the
\* tensors. fc1 is the identity with no bias; fc2 of set 0 is zero, and fc2 of set
\* w > 0 reads class j (from 0) off the hidden unit ((j + w) mod 4) + 1.
WeightPool == {0, 1, 2}

Params(w) ==
    [fc1_weight |-> [h \in 1..NumFeatures |-> [k \in 1..NumFeatures |-> IF h = k THEN 1 ELSE 0]],
     fc1_bias   |-> [h \in 1..NumFeatures |-> 0],
     fc2_weight |-> [j \in 1..NumClasses |-> [h \in 1..NumFeatures |->
                        IF w > 0 /\ h = ((j - 1 + w) % NumClasses) + 1 THEN 1 ELSE 0]],
     fc2_bias   |-> [j \in 1..NumClasses |-> 0]]

\* The tensors of every parameter set.
ParamsOf == [w \in WeightPool |-> Params(w)]

\* nn.Linear: weight . x + bias.
Linear(weight, bias, x) ==
    [o \in DOMAIN weight |->
        SumSeq([k \in DOMAIN x |-> weight[o][k] * x[k]]) + bias[o]]

relu(x) == [k \in DOMAIN x |-> IF x[k] > 0 THEN x[k] ELSE 0]

\* Net.forward with the parameter set w.
forward(w, x) ==
    LET p == ParamsOf[w]
    IN  Linear(p.fc2_weight, p.fc2_bias, relu(Linear(p.fc1_weight, p.fc1_bias, x)))

\* model(inputs) for one input of the loaded sets: forward, tabulated.
Outputs == [w \in WeightPool |-> [x \in FeaturePool |-> forward(w, x)]]

model(w, x) == Outputs[w][x]

\* A bug Argmax could have: the last index (from 0) of the largest entry.
ArgmaxLast(row) ==
    (CHOOSE k \in DOMAIN row :
        /\ \A m \in DOMAIN row : row[m] <= row[k]
        /\ \A m \in DOMAIN row : m > k => row[m] < row[k]) - 1

\* The index part of torch.max(t, 1) for one row: the first index (from 0) of the
\* largest entry.
Argmax(row) ==
    (CHOOSE k \in DOMAIN row :
        /\ \A m \in DOMAIN row : row[m] <= row[k]
        /\ \A m \in DOMAIN row : m < k => row[m] < row[k]) - 1

\* criterion(outputs, classnums) * inputs.size(0): the mean over the batch times
\* the batch size, that is the sum of the samples' losses.
criterion(outputs, classnums) ==
    SumSeq([k \in DOMAIN outputs |->
        outputs[k][Argmax(outputs[k]) + 1] - outputs[k][classnums[k] + 1]])

\* torch.sum(preds == classnums)
Corrects(preds, classnums) == Cardinality({k \in DOMAIN preds : preds[k] = classnums[k]})

\* model.state_dict() is a view of the live parameters; copy.deepcopy of it is a
\* snapshot. Read gives the parameters a state_dict holds now.
state_dict == [live |-> TRUE, val |-> 0]

Read(sd) == IF sd.live THEN weights ELSE sd.val

\* A bug deepcopy could have: no copy, the checkpoint is the live state_dict.
deepcopyAlias(sd) == sd

deepcopy(sd) == [live |-> FALSE, val |-> Read(sd)]

\* ------------------------------------------- DatasetFolder and dataloaders
Phases == {"train", "val", "test"}

\* feature_datasets[x]: the samples and the targets of a split.
feature_datasets(x) ==
    IF x = "train" THEN [samples |-> X_train, targets |-> y_train]
    ELSE IF x = "val" THEN [samples |-> X_val, targets |-> y_val]
    ELSE [samples |-> X_test, targets |-> y_test]

\* DatasetFolder.__len__, and dataset_sizes[x].
dataset_sizes(x) == Len(feature_datasets(x).samples)

\* DatasetFolder.__getitem__ (index from 1 here).
getitem(x, index) ==
    [sample |-> feature_datasets(x).samples[index],
     target |-> feature_datasets(x).targets[index]]

\* A bug shuffle could have: shuffle=True for every split.
shuffleAll(x) == TRUE

\* The shuffle argument of the DataLoader of a split.
shuffle(x) == x = "train"

\* The index orders a new iterator of dataloaders[x] may follow: any permutation
\* with shuffle=True, the list order otherwise.
SamplerOrders(x) ==
    IF shuffle(x) THEN Permutations(1..dataset_sizes(x))
    ELSE {[k \in 1..dataset_sizes(x) |-> k]}

\* A bug NextBatch could have: a batch one sample too long.
NextBatchOneMore(ord, at, bs) ==
    SubSeq(ord, at + 1, IF at + bs + 1 < Len(ord) THEN at + bs + 1 ELSE Len(ord))

\* The indices of the iterator's next batch: up to batch_size of those left.
NextBatch(ord, at, bs) ==
    SubSeq(ord, at + 1, IF at + bs < Len(ord) THEN at + bs ELSE Len(ord))

\* The running iterator has a next batch: the for statement enters its body.
MoreBatches == pos < Len(order)

\* The running iterator is exhausted: the for statement ends.
Exhausted == pos = Len(order)

\* ---------------------------------------------------------- accuracy
\* A bug Ratio could have: every average taken over the training split's size.
RatioOverTrain(count, size) == <<count, Len(X_train)>>

\* running_corrects.double() / dataset_sizes[phase], as a fraction.
Ratio(count, size) == <<count, size>>

\* a > b for fractions with positive denominators.
Greater(a, b) == a[1] * b[2] > b[1] * a[2]

\* What one batch adds to the accumulators and to the history of the pass.
BatchOf(x, idx) ==
    LET inputs == [k \in DOMAIN idx |-> getitem(x, idx[k]).sample]
        targets == [k \in DOMAIN idx |-> getitem(x, idx[k]).target]
        outputs == [k \in DOMAIN idx |-> model(weights, inputs[k])]
        classnums == [k \in DOMAIN idx |-> Argmax(targets[k])]
        preds == [k \in DOMAIN idx |-> Argmax(outputs[k])]
    IN  [size |-> Len(inputs),
         loss |-> criterion(outputs, classnums),
         corrects |-> Corrects(preds, classnums),
         log |-> [k \in DOMAIN idx |->
                    [index |-> idx[k], pred |-> preds[k], classnum |-> classnums[k]]]]

\* ------------------------------------------------------------ train_model
\* Lines 380-388: the checkpoint starts as a copy of the parameters, best_acc as 0.0.
TrainModelEnter ==
    /\ pc = "main"
    /\ best_model_wts' = deepcopy(state_dict)
    /\ best_acc' = <<0, 1>>
    /\ epoch' = 0
    /\ pc' = "tm_for"
    /\ UNCHANGED <<dataVars, splitVars, batch_size, num_epochs, weights, training, phase,
                   running_loss, running_corrects, order, pos, epoch_loss, epoch_acc,
                   sched_steps, opt_steps, loads, init_wts, seen, batch_lens, events,
                   val_hist, prev_order, reshuffled>>

\* `for epoch in range(num_epochs)`: the next epoch, or the end of the loop.
TrainModelFor ==
    /\ pc = "tm_for"
    /\ IF epoch < num_epochs
       THEN /\ phase' = "train"
            /\ events' = <<>>
            /\ pc' = "tm_phase"
       ELSE /\ pc' = "tm_load"
            /\ UNCHANGED <<phase, events>>
    /\ UNCHANGED <<dataVars, splitVars, batch_size, num_epochs, weights, training,
                   best_model_wts, best_acc, epoch, running_loss, running_corrects, order,
                   pos, epoch_loss, epoch_acc, sched_steps, opt_steps, loads, init_wts,
                   seen, batch_lens, val_hist, prev_order, reshuffled>>

\* A bug TrainingPhase could have: the scheduler steps in every phase.
TrainingEveryPhase(x) == TRUE

\* `if phase == 'train':` of line 395, which steps the scheduler.
TrainingPhase(x) == x = "train"

\* A bug BackwardPhase could have: the optimizer steps in every phase.
BackwardEveryPhase(x) == TRUE

\* `if phase == 'train':` of line 418, which runs backward and the optimizer.
BackwardPhase(x) == x = "train"

\* Lines 395-404: the start of a phase. The scheduler steps in the training phase
\* only; the accumulators are reset; the for statement opens a new iterator.
TrainModelPhase ==
    /\ pc = "tm_phase"
    /\ IF TrainingPhase(phase)
       THEN /\ sched_steps' = sched_steps + 1
            /\ training' = TRUE
            /\ events' = Append(events, "scheduler.step")
       ELSE /\ training' = FALSE
            /\ UNCHANGED <<sched_steps, events>>
    /\ running_loss' = 0
    /\ running_corrects' = 0
    /\ order' \in SamplerOrders(phase)
    /\ IF phase = "train"
       THEN /\ reshuffled' = (prev_order # <<>> /\ order' # prev_order)
            /\ prev_order' = <<>>
       ELSE UNCHANGED <<prev_order, reshuffled>>
    /\ pos' = 0
    /\ seen' = <<>>
    /\ batch_lens' = <<>>
    /\ pc' = "tm_batch"
    /\ UNCHANGED <<dataVars, splitVars, batch_size, num_epochs, weights, best_model_wts,
                   best_acc, epoch, phase, epoch_loss, epoch_acc, opt_steps, loads,
                   init_wts, val_hist>>

\* optimizer.step() after loss.backward(): the parameters it may leave.
OptimizerStep == WeightPool

\* Lines 404-424: one batch. Only the training phase steps the optimizer.
TrainModelBatch ==
    /\ pc = "tm_batch"
    /\ MoreBatches
    /\ LET idx == NextBatch(order, pos, batch_size)
           b == BatchOf(phase, idx)
       IN  /\ IF BackwardPhase(phase)
              THEN /\ weights' \in OptimizerStep
                   /\ opt_steps' = opt_steps + 1
                   /\ events' = events \o <<phase, "optimizer.step">>
              ELSE /\ events' = Append(events, phase)
                   /\ UNCHANGED <<weights, opt_steps>>
           /\ running_loss' = running_loss + b.loss
           /\ running_corrects' = running_corrects + b.corrects
           /\ pos' = pos + b.size
           /\ seen' = seen \o b.log
           /\ batch_lens' = Append(batch_lens, b.size)
    /\ UNCHANGED <<pc, dataVars, splitVars, batch_size, num_epochs, training,
                   best_model_wts, best_acc, epoch, phase, order, epoch_loss, epoch_acc,
                   sched_steps, loads, init_wts, val_hist, prev_order, reshuffled>>

\* A bug Improved could have: `>=` for `>`.
ImprovedOrTied(x, acc, best) == x = "val" /\ ~Greater(best, acc)

\* `phase == 'val' and epoch_acc > best_acc`
Improved(x, acc, best) == x = "val" /\ Greater(acc, best)

\* Lines 426-436: the end of a phase. The averages are printed, and a validation
\* accuracy above best_acc replaces the checkpoint.
TrainModelPhaseEnd ==
    /\ pc = "tm_batch"
    /\ Exhausted
    /\ epoch_loss' = Ratio(running_loss, dataset_sizes(phase))
    /\ epoch_acc' = Ratio(running_corrects, dataset_sizes(phase))
    /\ IF Improved(phase, epoch_acc', best_acc)
       THEN /\ best_acc' = epoch_acc'
            /\ best_model_wts' = deepcopy(state_dict)
       ELSE UNCHANGED <<best_acc, best_model_wts>>
    /\ IF phase = "train"
       THEN /\ phase' = "val"
            /\ prev_order' = order
            /\ reshuffled' = FALSE
            /\ pc' = "tm_phase"
            /\ UNCHANGED <<epoch, val_hist>>
       ELSE /\ epoch' = epoch + 1
            /\ val_hist' = Append(val_hist, [acc |-> epoch_acc', wts |-> weights])
            /\ pc' = "tm_for"
            /\ UNCHANGED <<phase, prev_order, reshuffled>>
    /\ UNCHANGED <<dataVars, splitVars, batch_size, num_epochs, weights, training,
                   running_loss, running_corrects, order, pos, sched_steps, opt_steps,
                   loads, init_wts, seen, batch_lens, events>>

\* Lines 445-447: model.load_state_dict(best_model_wts); return model.
TrainModelLoad ==
    /\ pc = "tm_load"
    /\ weights' = Read(best_model_wts)
    /\ loads' = loads + 1
    /\ pc' = "trained"
    /\ UNCHANGED <<dataVars, splitVars, batch_size, num_epochs, training, best_model_wts,
                   best_acc, epoch, phase, running_loss, running_corrects, order, pos,
                   epoch_loss, epoch_acc, sched_steps, opt_steps, init_wts, seen,
                   batch_lens, events, val_hist, prev_order, reshuffled>>

\* ---------------------------------------------------- print_test_accuracy
\* Lines 464-468: the call on a split name; the accumulators start at 0. The
\* history of train_model's epochs ends here.
PrintTestAccuracyEnter ==
    /\ pc = "trained"
    /\ phase' \in Phases
    /\ running_loss' = 0
    /\ running_corrects' = 0
    /\ training' = FALSE
    /\ order' \in SamplerOrders(phase')
    /\ pos' = 0
    /\ seen' = <<>>
    /\ batch_lens' = <<>>
    /\ events' = <<>>
    /\ val_hist' = <<>>
    /\ prev_order' = <<>>
    /\ pc' = "pta_batch"
    /\ UNCHANGED <<dataVars, splitVars, batch_size, num_epochs, weights, best_model_wts,
                   best_acc, epoch, epoch_loss, epoch_acc, sched_steps, opt_steps, loads,
                   init_wts, reshuffled>>

\* Lines 468-482: one batch.
PrintTestAccuracyBatch ==
    /\ pc = "pta_batch"
    /\ MoreBatches
    /\ LET idx == NextBatch(order, pos, batch_size)
           b == BatchOf(phase, idx)
       IN  /\ running_loss' = running_loss + b.loss
           /\ running_corrects' = running_corrects + b.corrects
           /\ pos' = pos + b.size
           /\ seen' = seen \o b.log
           /\ batch_lens' = Append(batch_lens, b.size)
           /\ events' = Append(events, phase)
    /\ UNCHANGED <<pc, dataVars, splitVars, batch_size, num_epochs, weights, training,
                   best_model_wts, best_acc, epoch, phase, order, epoch_loss, epoch_acc,
                   sched_steps, opt_steps, loads, init_wts, val_hist, prev_order, reshuffled>>

\* Lines 484-487: the averages are printed.
PrintTestAccuracyEnd ==
    /\ pc = "pta_batch"
    /\ Exhausted
    /\ epoch_loss' = Ratio(running_loss, dataset_sizes(phase))
    /\ epoch_acc' = Ratio(running_corrects, dataset_sizes(phase))
    /\ pc' = "done"
    /\ UNCHANGED <<dataVars, splitVars, batch_size, num_epochs, weights, training,
                   best_model_wts, best_acc, epoch, phase, running_loss, running_corrects,
                   order, pos, sched_steps, opt_steps, loads, init_wts, seen, batch_lens,
                   events, val_hist, prev_order, reshuffled>>

\* ------------------------------------------------------- the training run
\* The state in which train_model is called on a loaded set of n samples that
\* both splits accept, split in list order. Of the data preparation only the three subsets are kept: the
\* training loop reads nothing else of it.
InitTrain ==
    /\ pc = "main"
    /\ csv = <<>> /\ cell_features = <<>> /\ groups = <<>> /\ X_norm = <<>>
    /\ features = <<>> /\ labels = <<>> /\ i = 0
    /\ X = <<>> /\ y = <<>> /\ X_tmp = <<>> /\ y_tmp = <<>>
    /\ pos_tmp = <<>> /\ pos_test = <<>> /\ pos_train = <<>> /\ pos_val = <<>>
    /\ \E n \in 1..MaxSamples, d \in LoadedSets :
        LET n_test == NTest(<<1, 5>>, n)
            n_val == NTest(<<1, 4>>, n - n_test)
            n_train == n - n_test - n_val
        IN  /\ ~SplitFails(<<1, 5>>, n)
            /\ ~SplitFails(<<1, 4>>, n - n_test)
            /\ X_test = [k \in 1..n_test |-> SampleFeature(d, k)]
            /\ y_test = [k \in 1..n_test |-> SampleLabel(d, k)]
            /\ X_val = [k \in 1..n_val |-> SampleFeature(d, n_test + k)]
            /\ y_val = [k \in 1..n_val |-> SampleLabel(d, n_test + k)]
            /\ X_train = [k \in 1..n_train |-> SampleFeature(d, n_test + n_val + k)]
            /\ y_train = [k \in 1..n_train |-> SampleLabel(d, n_test + n_val + k)]
    /\ batch_size \in 1..MaxBatch
    /\ num_epochs \in 0..MaxEpochs
    /\ weights \in WeightPool
    /\ init_wts = weights
    /\ training = TRUE
    /\ best_model_wts = [live |-> FALSE, val |-> 0] /\ best_acc = <<0, 1>>
    /\ epoch = 0 /\ phase = ""
    /\ running_loss = 0 /\ running_corrects = 0 /\ order = <<>> /\ pos = 0
    /\ epoch_loss = <<0, 1>> /\ epoch_acc = <<0, 1>>
    /\ sched_steps = 0 /\ opt_steps = 0 /\ loads = 0
    /\ seen = <<>> /\ batch_lens = <<>> /\ events = <<>> /\ val_hist = <<>>
    /\ prev_order = <<>> /\ reshuffled = FALSE

NextTrain ==
    \/ TrainModelEnter
    \/ TrainModelFor
    \/ TrainModelPhase
    \/ TrainModelBatch
    \/ TrainModelPhaseEnd
    \/ TrainModelLoad
    \/ PrintTestAccuracyEnter
    \/ PrintTestAccuracyBatch
    \/ PrintTestAccuracyEnd

Spec == InitTrain /\ [][NextTrain]_vars

\* ===================================================================
\* The claims
\* ===================================================================

\* a = b for fractions with positive denominators.
SameRatio(a, b) == a[1] * b[2] = b[1] * a[2]

\* train_model is running, or has just returned.
InTrainModel == pc \in {"tm_for", "tm_phase", "tm_batch", "tm_load", "trained"}

\* The epochs of h whose validation accuracy no epoch of h exceeds.
BestEpochs(h) == {e \in DOMAIN h : \A f \in DOMAIN h : ~Greater(h[f].acc, h[e].acc)}

\* C1: when train_model returns after num_epochs >= 1 epochs, the model holds
\* the weights it had at the end of the validation phase of an epoch whose
\* validation accuracy is the highest of the run, and 'Best val acc' is that
\* accuracy.
C1_ReturnsBestEpochWeights ==
    (pc = "trained" /\ num_epochs >= 1) =>
        \E e \in BestEpochs(val_hist) :
            /\ weights = val_hist[e].wts
            /\ SameRatio(best_acc, val_hist[e].acc)

\* A step of an evaluation-only pass: of the validation phase of train_model, or
\* of print_test_accuracy.
C2_EvalStep ==
    \/ pc \in {"tm_phase", "tm_batch"} /\ phase = "val"
    \/ pc \in {"trained", "pta_batch"}

\* C2: an evaluation-only step (the validation phase of train_model, and
\* print_test_accuracy on any split, 'train' included) takes no optimizer step
\* and no scheduler step and leaves the model weights as they were.
C2_EvaluationKeepsWeights ==
    [][C2_EvalStep =>
        /\ weights' = weights
        /\ opt_steps' = opt_steps
        /\ sched_steps' = sched_steps]_vars

\* A run that trained over several batches and validated, then finished
\* print_test_accuracy on the shuffled 'train' split over several batches.
C2_Witness ==
    /\ pc = "done"
    /\ phase = "train"
    /\ Len(batch_lens) >= 2
    /\ sched_steps >= 1
    /\ opt_steps >= 2

\* The earliest epoch of h with the highest validation accuracy.
EarliestBest(h) == CHOOSE e \in BestEpochs(h) : \A f \in BestEpochs(h) : e <= f

\* The weights the checkpoint holds after the epochs of h: those of the earliest
\* best epoch when some accuracy is above 0, the initial ones otherwise.
ExpectedCheckpoint(h) ==
    IF \E e \in DOMAIN h : h[e].acc[1] > 0 THEN h[EarliestBest(h)].wts ELSE init_wts

\* max(0, the validation accuracies of h).
MaxAccOrZero(h) == IF h = <<>> THEN <<0, 1>> ELSE h[EarliestBest(h)].acc

\* What holds of the checkpoint while train_model runs and when it returns.
C10_Checkpoint ==
    InTrainModel =>
        /\ SameRatio(best_acc, MaxAccOrZero(val_hist))
        /\ Read(best_model_wts) = ExpectedCheckpoint(val_hist)
        /\ pc = "trained" => weights = ExpectedCheckpoint(val_hist)

CeilDiv(n, d) == (n + d - 1) \div d

\* A pass of the running iterator has yielded its last batch.
PassDone == pc \in {"tm_batch", "pta_batch"} /\ Exhausted

\* The running iterator has batches left.
PassRunning == pc \in {"tm_batch", "pta_batch"} /\ MoreBatches

\* Every "train" step of the running epoch is followed by one optimizer step,
\* and no optimizer step comes otherwise.
C5_OneStepPerBatch ==
    /\ \A k \in DOMAIN events :
        /\ events[k] = "train" /\ InTrainModel =>
              k < Len(events) /\ events[k + 1] = "optimizer.step"
        /\ events[k] = "optimizer.step" => k > 1 /\ events[k - 1] = "train"
    /\ pc = "tm_batch" /\ phase = "train" =>
          opt_steps = epoch * CeilDiv(Len(X_train), batch_size) + Len(batch_lens)

\* C5 as claimed: every batch of every split holds exactly batch_size samples,
\* and the training phase takes one optimizer step per batch.
C5_EveryBatchFull ==
    /\ \A k \in DOMAIN batch_lens : batch_lens[k] = batch_size
    /\ C5_OneStepPerBatch

\* C5 as amended: every batch holds at least 1 and at most batch_size samples;
\* the batches before the last of a pass hold exactly batch_size, and the last
\* holds what is left of the split, n - batch_size * (k - 1); the training phase
\* takes one optimizer step per batch.
C5_BatchSizes ==
    /\ \A k \in DOMAIN batch_lens :
        /\ 1 <= batch_lens[k] /\ batch_lens[k] <= batch_size
        /\ (k < Len(batch_lens) \/ PassRunning) => batch_lens[k] = batch_size
    /\ pc \in {"tm_batch", "pta_batch"} => SumSeq(batch_lens) = pos
    /\ PassDone =>
        /\ Len(batch_lens) = CeilDiv(dataset_sizes(phase), batch_size)
        /\ batch_lens[Len(batch_lens)] =
              dataset_sizes(phase) - batch_size * (Len(batch_lens) - 1)
    /\ C5_OneStepPerBatch

\* A training pass whose last batch is short, with one optimizer step per batch.
C5_Witness ==
    /\ PassDone
    /\ pc = "tm_batch" /\ phase = "train" /\ epoch = 0
    /\ Len(batch_lens) >= 2
    /\ batch_lens[Len(batch_lens)] < batch_size
    /\ opt_steps = Len(batch_lens)

\* The sample indices of the log, in the order processed.
Visited == [k \in DOMAIN seen |-> seen[k].index]

NoRepeat(s) == \A a, b \in DOMAIN s : a # b => s[a] # s[b]

\* s visits each of 1..n exactly once.
VisitsAll(s, n) == Len(s) = n /\ NoRepeat(s) /\ {s[k] : k \in DOMAIN s} = 1..n

InListOrder(s) == \A k \in DOMAIN s : s[k] = k

\* C6: a pass visits every sample of its split exactly once; the validation and
\* test splits are visited in list order, the training split in some permutation.
C6_EachSampleOnce ==
    /\ pc \in {"tm_batch", "pta_batch", "done"} =>
        /\ NoRepeat(Visited)
        /\ \A k \in DOMAIN Visited : Visited[k] \in 1..dataset_sizes(phase)
        /\ phase # "train" => InListOrder(Visited)
        /\ (PassDone \/ pc = "done") => VisitsAll(Visited, dataset_sizes(phase))
    \* the training pass has just ended
    /\ pc = "tm_phase" /\ phase = "val" => VisitsAll(Visited, Len(X_train))
    \* the validation pass has just ended
    /\ pc = "tm_for" /\ epoch > 0 =>
          VisitsAll(Visited, Len(X_val)) /\ InListOrder(Visited)

\* A training pass of a later epoch, over several batches, that has visited all
\* samples in another order than the pass of the epoch before, and not list order.
C6_Witness ==
    /\ PassDone
    /\ pc = "tm_batch" /\ phase = "train" /\ epoch >= 1
    /\ reshuffled
    /\ ~InListOrder(Visited)
    /\ Len(batch_lens) >= 2

\* The samples of the log whose predicted class is the label's argmax.
CorrectInLog(log) == Cardinality({k \in DOMAIN log : log[k].pred = log[k].classnum})

\* The samples of split x that the parameters w classify as their label's argmax.
CorrectOfSplit(x, w) ==
    Cardinality({k \in 1..dataset_sizes(x) :
        Argmax(forward(w, feature_datasets(x).samples[k]))
            = Argmax(feature_datasets(x).targets[k])})

\* C9: the accumulators are 0 at the start of every pass; the counter is the
\* number of samples of this pass predicted as their label's argmax, between 0
\* and the number processed; the accuracy printed for a pass is that number over
\* the split's size, in [0, 1].
C9_AccuracyBookkeeping ==
    /\ pc \in {"tm_batch", "pta_batch"} =>
        /\ Len(seen) = pos
        /\ running_corrects = CorrectInLog(seen)
        /\ 0 <= running_corrects /\ running_corrects <= Len(seen)
        /\ pos = 0 => running_corrects = 0 /\ running_loss = 0
    \* the training phase has just printed
    /\ pc = "tm_phase" /\ phase = "val" =>
        /\ VisitsAll(Visited, Len(X_train))
        /\ epoch_acc = <<CorrectInLog(seen), Len(X_train)>>
    \* the validation phase has just printed
    /\ pc = "tm_for" /\ epoch > 0 =>
          epoch_acc = <<CorrectOfSplit("val", weights), Len(X_val)>>
    \* print_test_accuracy has printed
    /\ pc = "done" =>
          epoch_acc = <<CorrectOfSplit(phase, weights), dataset_sizes(phase)>>
    /\ (pc \in {"tm_phase", "tm_batch", "tm_for", "tm_load", "trained", "pta_batch", "done"}) =>
          0 <= epoch_acc[1] /\ epoch_acc[1] <= epoch_acc[2] /\ epoch_acc[2] > 0

\* The second epoch's validation accuracy is 0 although the first epoch's was
\* above 0 and the training phase before it counted correct samples.
C9_Witness ==
    /\ pc = "tm_for" /\ epoch = 2
    /\ Len(val_hist) = 2
    /\ val_hist[1].acc[1] > 0
    /\ epoch_acc[1] = 0
    /\ Len(X_val) >= 1
    /\ opt_steps >= 2

RECURSIVE Rep(_, _)
Rep(s, n) == IF n = 0 THEN <<>> ELSE s \o Rep(s, n - 1)

IsPrefix(s, t) == Len(s) <= Len(t) /\ SubSeq(t, 1, Len(s)) = s

\* The steps of one epoch: one scheduler step, every training batch followed by
\* one optimizer step, then every validation batch.
EpochPattern ==
    <<"scheduler.step">>
    \o Rep(<<"train", "optimizer.step">>, CeilDiv(Len(X_train), batch_size))
    \o Rep(<<"val">>, CeilDiv(Len(X_val), batch_size))

\* The steps of the running epoch follow the pattern, and the counters of
\* scheduler steps, optimizer steps, validation phases and loads match the
\* number of epochs completed.
C8_Order ==
    /\ pc \in {"tm_phase", "tm_batch"} => IsPrefix(events, EpochPattern)
    /\ pc = "tm_phase" /\ phase = "train" => events = <<>> /\ sched_steps = epoch
    /\ pc = "tm_batch" \/ (pc = "tm_phase" /\ phase = "val") => sched_steps = epoch + 1
    /\ pc = "tm_phase" /\ phase = "val" =>
          events = <<"scheduler.step">>
                   \o Rep(<<"train", "optimizer.step">>, CeilDiv(Len(X_train), batch_size))
    /\ pc \in {"tm_for", "tm_load", "trained"} =>
        /\ sched_steps = epoch
        /\ opt_steps = epoch * CeilDiv(Len(X_train), batch_size)
        /\ Len(val_hist) = epoch
        /\ epoch > 0 => events = EpochPattern
    /\ pc \in {"tm_load", "trained"} => epoch = num_epochs
    /\ InTrainModel => loads = (IF pc = "trained" THEN 1 ELSE 0)

\* The steps train_model has left before it returns, if it runs num_epochs
\* epochs of all their batches: per epoch the for statement, two phase starts,
\* the batches and two phase ends; then the end of the loop and the load.
C8_StepsLeft ==
    LET kT == CeilDiv(Len(X_train), batch_size)
        kV == CeilDiv(Len(X_val), batch_size)
        atFor == (num_epochs - epoch) * (kT + kV + 5) + 2
    IN  IF pc = "main" THEN num_epochs * (kT + kV + 5) + 3
        ELSE IF pc = "tm_for" THEN atFor
        ELSE IF pc = "tm_phase" /\ phase = "train" THEN atFor - 1
        ELSE IF pc = "tm_batch" /\ phase = "train" THEN atFor - 2 - Len(batch_lens)
        ELSE IF pc = "tm_phase" /\ phase = "val" THEN atFor - 3 - kT
        ELSE IF pc = "tm_batch" /\ phase = "val" THEN atFor - 4 - kT - Len(batch_lens)
        ELSE IF pc = "tm_load" THEN 1
        ELSE 0

C8_Running == pc \in {"main", "tm_for", "tm_phase", "tm_batch", "tm_load"}

\* train_model is not stuck: where a step has a condition beyond its position (a
\* new iterator needs an index order, the batch loop a next batch or the end of
\* the iterator), the condition holds.
C8_CanStep ==
    /\ pc = "tm_phase" => SamplerOrders(phase) # {}
    /\ pc = "tm_batch" => MoreBatches \/ Exhausted

\* C8: train_model returns after exactly num_epochs epochs (it is never stuck,
\* and every step brings it one step closer to its return); every epoch is one
\* scheduler step, then the training batches each followed by one optimizer
\* step, then the validation batches; the checkpoint is loaded once, after the
\* last validation phase.
C8_EpochOrder ==
    /\ []C8_Order
    /\ [](C8_Running => C8_StepsLeft > 0 /\ C8_CanStep)
    /\ [][C8_Running => C8_StepsLeft' = C8_StepsLeft - 1]_vars

\* train_model has returned after two epochs of several training batches each.
C8_Witness ==
    /\ pc = "trained"
    /\ num_epochs = 2
    /\ sched_steps = 2
    /\ opt_steps >= 4
    /\ loads = 1

\* The set of the entries of a sequence.
Range(s) == {s[k] : k \in DOMAIN s}

\* Entry k of subset (Xs, ys) is the sample at position ps[k] of the loaded set.
PairedWith(Xs, ys, ps) ==
    /\ Len(Xs) = Len(ps) /\ Len(ys) = Len(ps)
    /\ NoRepeat(ps)
    /\ \A k \in DOMAIN ps : ps[k] \in DOMAIN X /\ Xs[k] = X[ps[k]] /\ ys[k] = y[ps[k]]

\* C3: after the two splits of n loaded samples, test has ceil(0.20 * n)
\* samples, validation ceil(0.25 * (n - test)) and training the rest (20%, 20%
\* and 60% of n up to rounding); the three subsets are pairwise disjoint by
\* position and cover the loaded set; every feature row is with its own label.
C3_SplitPartition ==
    pc = "split_done" =>
        LET n == Len(X)
            nTest == Len(X_test)
            nVal == Len(X_val)
            nTrain == Len(X_train)
        IN  /\ nTest = CeilDiv(n, 5)
            /\ nVal = CeilDiv(n - nTest, 4)
            /\ nTrain = n - nTest - nVal
            /\ Abs(5 * nTest - n) < 5
            /\ Abs(5 * nVal - n) < 5
            /\ Abs(5 * nTrain - 3 * n) < 10
            /\ PairedWith(X_test, y_test, pos_test)
            /\ PairedWith(X_val, y_val, pos_val)
            /\ PairedWith(X_train, y_train, pos_train)
            /\ Range(pos_test) \cap Range(pos_val) = {}
            /\ Range(pos_test) \cap Range(pos_train) = {}
            /\ Range(pos_val) \cap Range(pos_train) = {}
            /\ Range(pos_test) \cup Range(pos_val) \cup Range(pos_train) = 1..n

\* Five loaded samples split 3 : 1 : 1, shuffled.
C3_Witness ==
    /\ pc = "split_done"
    /\ Len(X) = 5
    /\ Len(X_train) = 3 /\ Len(X_val) = 1 /\ Len(X_test) = 1
    /\ pos_train[1] > pos_train[2]
    /\ pos_test # <<1>>

KnownGroups == {"no", "small", "medium", "large"}

\* The label encoding table of the notebook.
C4_Table(g) ==
    CASE g = "no" -> <<1, 0, 0, 0>>
      [] g = "small" -> <<0, 1, 0, 0>>
      [] g = "medium" -> <<0, 0, 1, 0>>
      [] g = "large" -> <<0, 0, 0, 1>>
      [] OTHER -> <<0, 0, 0, 0>>

\* C4: make_dataset gives each label string its vector of the table, and any
\* other string the zero vector: length 4, entries 0 or 1, at most one 1, and
\* exactly one 1 if and only if the string is a known one.
C4_LabelEncoding ==
    /\ Len(labels) <= Len(groups)
    /\ \A k \in DOMAIN labels :
        LET g == groups[k]
            v == labels[k]
        IN  /\ v = C4_Table(g)
            /\ Len(v) = NumClasses
            /\ \A j \in DOMAIN v : v[j] \in {0, 1}
            /\ SumSeq(v) <= 1
            /\ SumSeq(v) = 1 <=> g \in KnownGroups

\* A label list with a zero vector for an unknown string beside known ones.
C4_Witness ==
    /\ Len(labels) >= 3
    /\ \E k \in DOMAIN labels : labels[k] = <<0, 0, 0, 0>> /\ groups[k] \notin KnownGroups
    /\ \E k \in DOMAIN labels : labels[k] = <<0, 0, 1, 0>>
    /\ \E k \in DOMAIN labels : labels[k] = <<0, 0, 0, 1>>

\* The file positions of the rows with a value in Cgroup and in every selected
\* column, in file order.
C7_KeptSet ==
    {k \in DOMAIN csv :
        csv[k]["Cgroup"] # <<>> /\ \A j \in DOMAIN columns : csv[k][columns[j]] # <<>>}

C7_Kept ==
    [r \in 1..Cardinality(C7_KeptSet) |->
        CHOOSE k \in C7_KeptSet : Cardinality({m \in C7_KeptSet : m < k}) = r - 1]

\* C7: make_dataset returns as many features as labels, one pair per row of the
\* file with no missing value in Cgroup and the selected columns, in file order;
\* entry r of each comes from the r-th such row, and a feature vector has 9
\* entries.
C7_RowsKept ==
    /\ pc = "md_loop" => Len(features) = i /\ Len(labels) = i
    \* make_dataset has just returned
    /\ pc = "split1" =>
        /\ Len(X) = Cardinality(C7_KeptSet)
        /\ Len(y) = Len(X)
        /\ X = StandardScaler([q \in DOMAIN C7_Kept |->
                    [index |-> C7_Kept[q], row |-> csv[C7_Kept[q]]]])
        /\ \A r \in DOMAIN X :
            /\ cell_features[r].index = C7_Kept[r]
            /\ y[r] = OneHot(Value(csv[C7_Kept[r]]["Cgroup"]))
            /\ Len(X[r]) = 9

\* A file of which rows were dropped for a missing label and for a missing
\* feature, and a row kept although it misses the unselected column.
C7_Witness ==
    /\ pc = "split1"
    /\ Len(X) >= 3
    /\ \E k \in DOMAIN csv : csv[k]["Cgroup"] = <<>>
    /\ \E k \in DOMAIN csv, j \in DOMAIN columns : csv[k][columns[j]] = <<>>
    /\ \E k \in C7_KeptSet : csv[k][OtherColumn] = <<>>

\* The step is the end of a validation phase whose accuracy is above best_acc.
C11_RecordingStep ==
    /\ pc = "tm_batch" /\ Exhausted /\ phase = "val"
    /\ Greater(epoch_acc', best_acc)

\* C11: once train_model holds a checkpoint, the checkpoint is a snapshot: the
\* parameters it holds change only at the end of a validation phase whose
\* accuracy is strictly above best_acc; an optimizer step, which changes the
\* live parameters, and every other step leave them as recorded.
C11_CheckpointIsSnapshot ==
    [][pc # "main" =>
        /\ ~best_model_wts.live
        /\ Read(best_model_wts)' # Read(best_model_wts) => C11_RecordingStep
        /\ best_model_wts' # best_model_wts => C11_RecordingStep
        /\ opt_steps' # opt_steps => Read(best_model_wts)' = Read(best_model_wts)]_vars

\* In the second epoch an optimizer step has left the live parameters other
\* than the checkpoint recorded at the end of the first validation phase.
C11_Witness ==
    /\ pc = "tm_batch" /\ phase = "train" /\ epoch = 1
    /\ Len(val_hist) = 1
    /\ Greater(val_hist[1].acc, <<0, 1>>)
    /\ Len(batch_lens) >= 1
    /\ Read(best_model_wts) = val_hist[1].wts
    /\ weights # Read(best_model_wts)
    /\ weights # init_wts

\* The label vector of a label string outside the four known ones.
C12_Unknown(target) == \A j \in DOMAIN target : target[j] = 0

\* The class (from 0) a label vector stands for when an unknown label is taken
\* as class 'no'.
C12_ClassOf(target) ==
    IF C12_Unknown(target) THEN 0
    ELSE (CHOOSE j \in DOMAIN target : target[j] = 1) - 1

\* The loss of one sample of outputs out against class c (from 0).
C12_SampleLoss(out, c) ==
    (CHOOSE v \in Range(out) : \A m \in DOMAIN out : out[m] <= v) - out[c + 1]

\* A pass of train_model or of print_test_accuracy is at its batch loop.
C12_InPass == pc \in {"tm_batch", "pta_batch"}

\* The label vector of the k-th sample the running pass processed.
C12_TargetOf(k) == getitem(phase, seen[k].index).target

\* Nothing is skipped: the pass has processed the first pos samples of its index
\* order, each with its class, an unknown label as class 0; the counter is the
\* number of them predicted as that class, so an unknown label counts exactly
\* when class 0 is predicted; the pass ends with every sample processed.
C12_Log ==
    C12_InPass =>
        /\ Len(seen) = pos
        /\ \A k \in DOMAIN seen :
            /\ seen[k].index = order[k]
            /\ seen[k].classnum = C12_ClassOf(C12_TargetOf(k))
            /\ C12_Unknown(C12_TargetOf(k)) => seen[k].classnum = 0
        /\ running_corrects =
              Cardinality({k \in DOMAIN seen : seen[k].pred = C12_ClassOf(C12_TargetOf(k))})
        /\ Exhausted =>
              \A n \in 1..dataset_sizes(phase) :
                  Cardinality({k \in DOMAIN seen : seen[k].index = n}) = 1

\* A batch step stays in the pass (no sample is rejected) and adds to the loss
\* and to the counter what its samples give against their class, an unknown
\* label as class 0, with the parameters the batch was run on.
C12_BatchStep ==
    (C12_InPass /\ MoreBatches) =>
        LET m == Len(seen') - Len(seen)
            at(k) == getitem(phase, order[pos + k])
            out(k) == model(weights, at(k).sample)
            cls(k) == C12_ClassOf(at(k).target)
        IN  /\ pc' = pc
            /\ m >= 1
            /\ pos' = pos + m
            /\ running_loss' = running_loss
                  + SumSeq([k \in 1..m |-> C12_SampleLoss(out(k), cls(k))])
            /\ running_corrects' = running_corrects
                  + Cardinality({k \in 1..m : Argmax(out(k)) = cls(k)})
            /\ \A k \in 1..m : C12_Unknown(at(k).target) =>
                  /\ seen'[Len(seen) + k].classnum = 0
                  /\ seen'[Len(seen) + k].index = order[pos + k]

\* C12: a sample whose label vector is all zero is not rejected or skipped by
\* train_model or print_test_accuracy: its class is index 0, so it enters the
\* loss and the accuracy count as a sample of class 'no', counted as correct
\* exactly when the model predicts class 0.
C12_UnknownLabelIsClassNo ==
    /\ []C12_Log
    /\ [][C12_BatchStep]_vars

\* A pass has processed a sample of unknown label that the model took for
\* class 0 and that is the one sample counted as correct, among others.
C12_Witness ==
    /\ C12_InPass
    /\ Len(seen) >= 2
    /\ running_corrects = 1
    /\ \E k \in DOMAIN seen :
        /\ C12_Unknown(C12_TargetOf(k))
        /\ seen[k].pred = 0
        /\ seen[k].classnum = 0

\* A pass has processed a sample of unknown label that the model took for
\* another class than 0, and counted nothing as correct.
C12_WitnessWrong ==
    /\ C12_InPass
    /\ running_corrects = 0
    /\ \E k \in DOMAIN seen :
        /\ C12_Unknown(C12_TargetOf(k))
        /\ seen[k].pred # 0

====
